---- MODULE Spec2Model ----
(***************************************************************************)
(* Blog backend: an Express application over one Mongoose model.           *)
(*                                                                         *)
(* The model covers the startup sequence of the entry points               *)
(* (startServer / connectDatabase, and the older mongoose.connect(...)     *)
(* .then(...).catch(...) entry point of src/index.js) and the six blog     *)
(* handlers of the router.  Strings are sequences of one-character         *)
(* strings, so that trimming, length limits, case folding and pattern      *)
(* matching are computed, not assumed.                                     *)
(*                                                                         *)
(* A handler runs in two steps, as the code does: the synchronous part up  *)
(* to its await (parameter checks, and the casting/validation Mongoose     *)
(* does without reading the store), and the store operation together with  *)
(* the continuation that answers from its result.  The continuation reads  *)
(* nothing but the result of the store operation, so taking it in the same *)
(* step as the store operation hides no interleaving.  The answer a        *)
(* handler gives is held in the variable last until it is sent.            *)
(***************************************************************************)
EXTENDS Integers, Sequences, FiniteSets, Bags, TLC

VARIABLES
    entry,      \* which entry point file the process was started from
    db,         \* the Mongoose connection: disconnected, connecting, connected, failed
    listening,  \* whether app.listen has been called
    proc,       \* "running" or "exited"
    exitCode,   \* exit status once proc = "exited", NoCode before
    store,      \* the blog_table collection: ObjectId -> document or Null
    nextOid,    \* the ObjectId generator's counter
    clock,      \* the time createdAt is taken from
    inflight,   \* the requests whose handlers await the store, a bag
    last,       \* the request being answered, with its answer; Idle when none is
    received,   \* number of requests received so far
    deletedOk,  \* history: ids for which a DELETE was answered 200
    putOk       \* history: per id, PUTs answered 200 since the document was inserted

vars == <<entry, db, listening, proc, exitCode, store, nextOid, clock, inflight, last,
          received, deletedOk, putOk>>

----------------------------------------------------------------------------
(* Bounds of the model *)

\* ObjectIds the generator can hand out
MaxOids == 2
\* requests the server receives in one run
MaxRequests == 3
\* requests that can be in flight at the same time
MaxInFlight == 2

----------------------------------------------------------------------------
(* Strings *)

\* what a missing string-valued property reads as
Undefined == <<"undefined">>

Space == " "

Repeat(c, n) == [i \in 1..n |-> c]

RECURSIVE TrimLeft(_)
TrimLeft(s) == IF s # <<>> /\ Head(s) = Space THEN TrimLeft(Tail(s)) ELSE s

RECURSIVE TrimRight(_)
TrimRight(s) ==
    IF s # <<>> /\ s[Len(s)] = Space THEN TrimRight(SubSeq(s, 1, Len(s) - 1)) ELSE s

\* a mutant of Trim: the schema's trim option left out
TrimOmitted(s) == s

\* String.prototype.trim, which the schema option trim: true applies as a setter
Trim(s) == IF s = Undefined THEN s ELSE TrimRight(TrimLeft(s))

\* case folding of the 'i' option, over the letters the inputs use
Fold(c) ==
    CASE c = "J" -> "j"
      [] c = "O" -> "o"
      [] c = "B" -> "b"
      [] OTHER -> c

----------------------------------------------------------------------------
(* The schema of models/blog-model.js *)

TitleMaxLength == 100
DescriptionMaxLength == 1000

\* required: the value is present and, being a string, not empty
RequiredOk(v) == v # Undefined /\ Len(v) > 0

\* maxlength: [max, ...]
MaxLengthOk(v, max) == v = Undefined \/ Len(v) <= max

HexDigits == {"0", "1", "2", "3", "4", "5", "6", "7", "8", "9",
              "a", "b", "c", "d", "e", "f"}

\* mongoose.Types.ObjectId.isValid on a route parameter: 24 hex characters
\* (the 12-byte form is not among the identifiers the requests draw)
IsValidObjectId(id) == Len(id) = 24 /\ \A i \in 1..24 : id[i] \in HexDigits

\* the n-th ObjectId the generator hands out
OidOf(n) == [i \in 1..24 |-> IF i = 24 THEN ToString(n) ELSE "0"]

ObjectIds == {OidOf(n) : n \in 1..MaxOids}

\* what an absent number reads as
NoVer == 0 - 1

\* no document
Null == [title |-> Undefined, author |-> Undefined, description |-> Undefined,
         v |-> NoVer, createdAt |-> 0]

\* the document stored under an identifier, if any
Lookup(st, id) == IF id \in DOMAIN st THEN st[id] ELSE Null

\* the keys of req.body.data that the model tells apart: the three schema
\* paths, the version key __v, the document key _id, one key ("extra") that
\* is no path of the schema, and one update operator on a path of the schema
\* ("rename": the key $rename with the value {title: "old"})
NoPayload == [given |-> FALSE, title |-> Undefined, author |-> Undefined,
              description |-> Undefined, ver |-> NoVer, extra |-> FALSE,
              oid |-> Undefined, rename |-> FALSE]

EmptyObject == [NoPayload EXCEPT !.given = TRUE]

\* Object.keys(data)
Keys(d) ==
    {k \in {"title", "author", "description"} : d[k] # Undefined}
        \cup (IF d.ver # NoVer THEN {"__v"} ELSE {})
        \cup (IF d.extra THEN {"extra"} ELSE {})
        \cup (IF d.oid # Undefined THEN {"_id"} ELSE {})
        \cup (IF d.rename THEN {"$rename"} ELSE {})

----------------------------------------------------------------------------
(* Startup: startServer with connectDatabase (entry "server"), and the     *)
(* mongoose.connect(...).then(...).catch(...) of src/index.js ("index")    *)

EntryPoints == {"server", "index"}

NoCode == 0 - 1

\* a mutant of CanListen: app.listen called without awaiting the connection
ListenWithoutAwait(c) == c \in {"connecting", "connected"}

\* app.listen is reached only past the awaited connectDatabase() returning
\* true, and in index.js only inside the .then of mongoose.connect
CanListen(c) == c = "connected"

\* startServer() / the module body calls mongoose.connect
StartServer ==
    /\ proc = "running" /\ db = "disconnected"
    /\ db' = "connecting"
    /\ UNCHANGED <<entry, listening, proc, exitCode, store, nextOid, clock, inflight, last,
                   received, deletedOk, putOk>>

\* mongoose.connect resolves
ConnectResolves ==
    /\ proc = "running" /\ db = "connecting"
    /\ db' = "connected"
    /\ UNCHANGED <<entry, listening, proc, exitCode, store, nextOid, clock, inflight, last,
                   received, deletedOk, putOk>>

\* what the entry point does once the connection has failed: startServer
\* calls process.exit(1); the .catch of index.js only logs the error
OnConnectFailure(e) ==
    IF e = "server" THEN [proc |-> "exited", exitCode |-> 1]
                    ELSE [proc |-> "running", exitCode |-> NoCode]

\* mongoose.connect rejects
ConnectRejects ==
    /\ proc = "running" /\ db = "connecting"
    /\ db' = "failed"
    /\ proc' = OnConnectFailure(entry).proc
    /\ exitCode' = OnConnectFailure(entry).exitCode
    /\ UNCHANGED <<entry, listening, store, nextOid, clock, inflight, last, received,
                   deletedOk, putOk>>

\* after the .catch of index.js nothing is left to run: Node may end the
\* process, with status 0, once its event loop is empty
EventLoopDrains ==
    /\ proc = "running" /\ db = "failed" /\ ~listening
    /\ proc' = "exited" /\ exitCode' = 0
    /\ UNCHANGED <<entry, db, listening, store, nextOid, clock, inflight, last, received,
                   deletedOk, putOk>>

\* app.listen
Listen ==
    /\ proc = "running" /\ ~listening /\ CanListen(db)
    /\ listening' = TRUE
    /\ UNCHANGED <<entry, db, proc, exitCode, store, nextOid, clock, inflight, last,
                   received, deletedOk, putOk>>

----------------------------------------------------------------------------
(* The requests the clients send *)

TitleA == <<"A">>
TitleB == <<" ", "B", " ">>
Blank == <<" ">>
LongTitle == Repeat("x", TitleMaxLength + 1)
LongDescription == Repeat("x", DescriptionMaxLength + 1)
AuthorJo == <<"J", "o">>
AuthorBob == <<"b", "o", "b">>
DescriptionD == <<"d">>

\* a route parameter that is no ObjectId
MalformedId == <<"x", "y", "z">>

RequestIds == ObjectIds \cup {MalformedId}

PutPayloads ==
    { NoPayload,
      EmptyObject,
      [EmptyObject EXCEPT !.title = TitleB],
      [EmptyObject EXCEPT !.author = AuthorBob],
      [EmptyObject EXCEPT !.title = Blank],
      [EmptyObject EXCEPT !.title = LongTitle],
      [EmptyObject EXCEPT !.description = LongDescription],
      [EmptyObject EXCEPT !.title = TitleA, !.ver = 5],
      [EmptyObject EXCEPT !.extra = TRUE],
      [EmptyObject EXCEPT !.rename = TRUE] }

\* the handler returns on a malformed identifier before it looks into the
\* payload, so three payloads stand for all with it
PutRequests ==
    { [id |-> id, data |-> d] : id \in ObjectIds, d \in PutPayloads }
    \cup { [id |-> MalformedId, data |-> d] :
               d \in {NoPayload, EmptyObject, [EmptyObject EXCEPT !.title = TitleB]} }

ValidPost == [EmptyObject EXCEPT !.title = TitleA, !.author = AuthorJo,
                                 !.description = DescriptionD]

\* a client can only name identifiers it has seen: those handed out so far
PostPayloads(next) ==
    { NoPayload,
      ValidPost,
      [ValidPost EXCEPT !.title = TitleB, !.author = AuthorBob],
      [ValidPost EXCEPT !.title = Undefined],
      [ValidPost EXCEPT !.author = Blank] }
    \cup { [ValidPost EXCEPT !.oid = OidOf(n)] : n \in 1..(next - 1) }

\* ?name= values: absent, empty, letters in another case, and patterns
AuthorQueries ==
    { Undefined, <<>>, <<"j", "O">>, <<"o">>, <<".">>, <<"(">> }

Idle == [pc |-> "idle", op |-> "none", id |-> <<>>, name |-> Undefined,
         data |-> NoPayload, doc |-> Null, status |-> 0, err |-> "",
         blogs |-> <<>>, count |-> 0, accessed |-> FALSE,
         afterDelete |-> FALSE, seenV |-> NoVer]

\* res.status(code).json({error: message}), ending the handler
Answer(r, code, message) == [r EXCEPT !.pc = "done", !.status = code, !.err = message]

\* a request arrives: the server is listening
CanReceive ==
    /\ proc = "running" /\ listening
    /\ last.pc = "idle"
    /\ received < MaxRequests
    /\ BagCardinality(inflight) < MaxInFlight

\* the requests whose handlers await the store
Awaiting == BagToSet(inflight)

\* the store has answered the operation the handler of request q awaits;
\* Node runs one callback at a time, so no handler resumes while another
\* answers
Resumes(q, op) ==
    /\ proc = "running"
    /\ last.pc = "idle"
    /\ q.op = op

\* the handler of request q answers: r is the request with its answer
AnswerNow(q, r) ==
    /\ last' = r
    /\ inflight' = inflight (-) SetToBag({q})

\* the handler of request r waits for the store
Suspend(r) ==
    /\ inflight' = inflight (+) SetToBag({r})
    /\ UNCHANGED last

\* the synchronous part of a handler has run: it has answered, or it waits
Dispatch(r) ==
    IF r.pc = "done" THEN last' = r /\ UNCHANGED inflight ELSE Suspend(r)

----------------------------------------------------------------------------
(* What Mongoose and the store do for the handlers *)

\* casting of an update: the paths of the schema, each through its setters;
\* strict mode drops a key that is no path of the schema; __v is a path; an
\* update operator on a path of the schema is kept
CastUpdate(d) ==
    [title |-> Trim(d.title), author |-> Trim(d.author),
     description |-> Trim(d.description), ver |-> d.ver, rename |-> d.rename]

\* the validators of a path with a maxlength (author has none)
PathValid(v, max) == RequiredOk(v) /\ MaxLengthOk(v, max)

\* runValidators: true runs the validators of the paths the update sets;
\* update validators run for $set and $unset (and the array operators), so
\* what $rename does to a path is not validated
UpdateValidates(u) ==
    /\ u.title = Undefined \/ PathValid(u.title, TitleMaxLength)
    /\ u.author = Undefined \/ RequiredOk(u.author)
    /\ u.description = Undefined \/ PathValid(u.description, DescriptionMaxLength)

\* new BlogModel(data): the paths of the schema through their setters, __v
\* starting at 0, createdAt from the clock
NewDocument(d, now) ==
    [title |-> Trim(d.title), author |-> Trim(d.author),
     description |-> Trim(d.description), v |-> 0, createdAt |-> now]

\* validation before save: every path is required
DocumentValidates(doc) ==
    /\ PathValid(doc.title, TitleMaxLength)
    /\ RequiredOk(doc.author)
    /\ PathValid(doc.description, DescriptionMaxLength)

\* a mutant of IncVersion: the version is set, not incremented
SetVersion(v) == 1

\* $inc: { __v: 1 }
IncVersion(v) == v + 1

\* the store applying {$set: u, $inc: {__v: 1}} to a document, and
\* {$rename: {title: ...}} when the payload brought it: the document is left
\* without a title
ApplyUpdate(doc, u) ==
    [doc EXCEPT !.title = IF u.rename THEN Undefined
                          ELSE IF u.title # Undefined THEN u.title ELSE @,
                !.author = IF u.author # Undefined THEN u.author ELSE @,
                !.description = IF u.description # Undefined THEN u.description ELSE @,
                !.v = IncVersion(@)]

\* the store refuses an update that sets and increments the same path
UpdateConflicts(u) == u.ver # NoVer

\* the store compiles the pattern: an unclosed group does not compile
RegexCompiles(p) == \A i \in 1..Len(p) : p[i] # "("

\* one pattern character against one character, under the 'i' option
CharMatches(pc, c) == pc = "." \/ Fold(pc) = Fold(c)

\* {$regex: p, $options: 'i'}: the pattern matches somewhere in the string
RegexFinds(p, str) ==
    \E k \in 0..(Len(str) - Len(p)) :
        \A i \in 1..Len(p) : CharMatches(p[i], str[k + i])

\* the identifiers of the stored documents
Stored(st) == {id \in DOMAIN st : st[id] # Null}

\* .sort({ createdAt: 1 })
RECURSIVE SortByCreatedAt(_, _)
SortByCreatedAt(st, ids) ==
    IF ids = {} THEN <<>>
    ELSE LET first == CHOOSE id \in ids :
                          \A other \in ids : st[id].createdAt <= st[other].createdAt
         IN <<first>> \o SortByCreatedAt(st, ids \ {first})

----------------------------------------------------------------------------
(* GET /blogs *)

GetBlogsReceive ==
    /\ CanReceive
    /\ Suspend([Idle EXCEPT !.pc = "await", !.op = "LIST"])
    /\ received' = received + 1
    /\ UNCHANGED <<entry, db, listening, proc, exitCode, store, nextOid, clock,
                   deletedOk, putOk>>

\* BlogModel.find().sort({ createdAt: 1 }) and the answer
GetBlogsStore(q) ==
    /\ Resumes(q, "LIST")
    /\ LET all == SortByCreatedAt(store, Stored(store))
       IN AnswerNow(q, [q EXCEPT !.pc = "done", !.status = 200,
                                     !.accessed = TRUE, !.blogs = all,
                                     !.count = Len(all)])
    /\ UNCHANGED <<entry, db, listening, proc, exitCode, store, nextOid, clock,
                   received, deletedOk, putOk>>

----------------------------------------------------------------------------
(* GET /blog/id/:id *)

GetByIdSync(r) ==
    IF ~IsValidObjectId(r.id) THEN Answer(r, 400, "Invalid blog ID format")
    ELSE [r EXCEPT !.pc = "await"]

GetByIdReceive(id) ==
    /\ CanReceive
    /\ Dispatch(GetByIdSync([Idle EXCEPT !.op = "GET", !.id = id,
                                            !.afterDelete = id \in deletedOk]))
    /\ received' = received + 1
    /\ UNCHANGED <<entry, db, listening, proc, exitCode, store, nextOid, clock,
                   deletedOk, putOk>>

\* BlogModel.findById(id) and the answer
GetByIdStore(q) ==
    /\ Resumes(q, "GET")
    /\ LET r == [q EXCEPT !.accessed = TRUE]
       IN AnswerNow(q, IF Lookup(store, r.id) = Null
                      THEN Answer(r, 404, "Blog not found")
                      ELSE [r EXCEPT !.pc = "done", !.status = 200,
                                     !.blogs = <<r.id>>])
    /\ UNCHANGED <<entry, db, listening, proc, exitCode, store, nextOid, clock,
                   received, deletedOk, putOk>>

----------------------------------------------------------------------------
(* PUT /blog/id/:id *)

\* a mutant of IsEmptyUpdate: only the absent payload is refused
OnlyAbsentUpdate(d) == ~d.given

\* !updatedData || Object.keys(updatedData).length === 0
IsEmptyUpdate(d) == ~d.given \/ Cardinality(Keys(d)) = 0

\* the handler up to the await of findByIdAndUpdate: the two checks, then
\* the casting and the update validators, whose error the catch answers 500
PutSync(r) ==
    IF ~IsValidObjectId(r.id) THEN Answer(r, 400, "Invalid blog ID format")
    ELSE IF IsEmptyUpdate(r.data) THEN Answer(r, 400, "No update data provided")
    ELSE IF ~UpdateValidates(CastUpdate(r.data)) THEN Answer(r, 500, "ValidationError")
    ELSE [r EXCEPT !.pc = "await"]

PutReceive(id, data) ==
    /\ CanReceive
    /\ Dispatch(PutSync([Idle EXCEPT !.op = "PUT", !.id = id, !.data = data,
                                        !.afterDelete = id \in deletedOk,
                                        !.seenV = Lookup(store, id).v]))
    /\ received' = received + 1
    /\ UNCHANGED <<entry, db, listening, proc, exitCode, store, nextOid, clock,
                   deletedOk, putOk>>

\* BlogModel.findByIdAndUpdate(id, {...data, $inc: {__v: 1}}, {new: true,
\* runValidators: true}) at the store, one atomic operation, and the answer
PutStore(q) ==
    /\ Resumes(q, "PUT")
    /\ LET r == [q EXCEPT !.accessed = TRUE]
           u == CastUpdate(r.data)
           doc == Lookup(store, r.id)
       IN IF UpdateConflicts(u)
          THEN /\ AnswerNow(q, Answer(r, 500, "ConflictingUpdateOperators"))
               /\ UNCHANGED <<store, putOk>>
          ELSE IF doc = Null
          THEN /\ AnswerNow(q, Answer(r, 404, "Blog not found"))
               /\ UNCHANGED <<store, putOk>>
          ELSE /\ store' = [store EXCEPT ![r.id] = ApplyUpdate(doc, u)]
               /\ putOk' = [putOk EXCEPT ![r.id] = @ + 1]
               /\ AnswerNow(q, [r EXCEPT !.pc = "done", !.status = 200,
                                        !.blogs = <<r.id>>])
    /\ UNCHANGED <<entry, db, listening, proc, exitCode, nextOid, clock, received,
                   deletedOk>>

----------------------------------------------------------------------------
(* DELETE /blog/id/:id *)

DeleteSync(r) ==
    IF ~IsValidObjectId(r.id) THEN Answer(r, 400, "Invalid blog ID format")
    ELSE [r EXCEPT !.pc = "await"]

DeleteReceive(id) ==
    /\ CanReceive
    /\ Dispatch(DeleteSync([Idle EXCEPT !.op = "DELETE", !.id = id,
                                           !.afterDelete = id \in deletedOk]))
    /\ received' = received + 1
    /\ UNCHANGED <<entry, db, listening, proc, exitCode, store, nextOid, clock,
                   deletedOk, putOk>>

\* BlogModel.findByIdAndDelete(id) and the answer
DeleteStore(q) ==
    /\ Resumes(q, "DELETE")
    /\ LET r == [q EXCEPT !.accessed = TRUE]
       IN IF Lookup(store, r.id) = Null
          THEN /\ AnswerNow(q, Answer(r, 404, "Blog not found"))
               /\ UNCHANGED <<store, deletedOk>>
          ELSE /\ store' = [store EXCEPT ![r.id] = Null]
               /\ deletedOk' = deletedOk \cup {r.id}
               /\ AnswerNow(q, [r EXCEPT !.pc = "done", !.status = 200])
    /\ UNCHANGED <<entry, db, listening, proc, exitCode, nextOid, clock, received,
                   putOk>>

----------------------------------------------------------------------------
(* GET /blog/author?name= *)

GetByAuthorReceive(name) ==
    /\ CanReceive
    /\ Suspend([Idle EXCEPT !.pc = "await", !.op = "AUTHOR", !.name = name])
    /\ received' = received + 1
    /\ UNCHANGED <<entry, db, listening, proc, exitCode, store, nextOid, clock,
                   deletedOk, putOk>>

\* the documents find({author: {$regex: name, $options: 'i'}}) selects
AuthorMatches(st, name) ==
    {id \in Stored(st) : RegexFinds(name, st[id].author)}

\* BlogModel.find({author: {$regex: name, $options: 'i'}}).sort({createdAt: 1})
\* and the answer; the store refuses a $regex that is no string (the absent
\* name) and a pattern that does not compile, and the catch answers 500
GetByAuthorStore(q) ==
    /\ Resumes(q, "AUTHOR")
    /\ LET r == [q EXCEPT !.accessed = TRUE]
       IN AnswerNow(q, IF r.name = Undefined THEN Answer(r, 500, "BadValue")
                      ELSE IF ~RegexCompiles(r.name) THEN Answer(r, 500, "BadRegex")
                      ELSE LET all == SortByCreatedAt(store, AuthorMatches(store, r.name))
                           IN IF Len(all) = 0
                              THEN Answer(r, 404, "Blog not found")
                              ELSE [r EXCEPT !.pc = "done", !.status = 200,
                                             !.blogs = all, !.count = Len(all)])
    /\ UNCHANGED <<entry, db, listening, proc, exitCode, store, nextOid, clock,
                   received, deletedOk, putOk>>

----------------------------------------------------------------------------
(* POST /blogs *)

\* the handler up to the insert: new BlogModel(data), which takes the _id of
\* the payload or a fresh one, and the validation save() runs first, whose
\* error the catch answers 400
PostSync(r) ==
    IF ~DocumentValidates(r.doc) THEN Answer(r, 400, "ValidationError")
    ELSE [r EXCEPT !.pc = "await"]

PostReceive(data) ==
    /\ CanReceive
    /\ data.oid # Undefined \/ nextOid <= MaxOids
    /\ LET fresh == data.oid = Undefined
           id == IF fresh THEN OidOf(nextOid) ELSE data.oid
           r == PostSync([Idle EXCEPT !.op = "POST", !.id = id, !.data = data,
                                      !.doc = NewDocument(data, clock)])
       IN /\ Dispatch(r)
          \* an identifier and a time that no document keeps are not counted
          /\ nextOid' = IF fresh /\ r.pc = "await" THEN nextOid + 1 ELSE nextOid
          /\ clock' = IF r.pc = "await" THEN clock + 1 ELSE clock
    /\ received' = received + 1
    /\ UNCHANGED <<entry, db, listening, proc, exitCode, store, deletedOk, putOk>>

\* the insert of save() and the answer; the store refuses a second document
\* with the same _id, and the catch answers 400
PostStore(q) ==
    /\ Resumes(q, "POST")
    /\ LET r == [q EXCEPT !.accessed = TRUE]
       IN IF Lookup(store, r.id) # Null
          THEN /\ AnswerNow(q, Answer(r, 400, "DuplicateKey"))
               /\ UNCHANGED <<store, putOk>>
          ELSE /\ store' = [store EXCEPT ![r.id] = r.doc]
               /\ putOk' = [putOk EXCEPT ![r.id] = 0]
               /\ AnswerNow(q, [r EXCEPT !.pc = "done", !.status = 201,
                                        !.blogs = <<r.id>>])
    /\ UNCHANGED <<entry, db, listening, proc, exitCode, nextOid, clock, received,
                   deletedOk>>

----------------------------------------------------------------------------

\* res.status(...).json(...) has written the answer and the handler returns
Send ==
    /\ last.pc = "done"
    /\ last' = Idle
    /\ UNCHANGED <<entry, db, listening, proc, exitCode, store, nextOid, clock,
                   inflight, received, deletedOk, putOk>>

\* a document an earlier run of the server left in the collection, under the
\* first ObjectId
SeedDocument == [title |-> TitleA, author |-> AuthorJo, description |-> DescriptionD,
                 v |-> 0, createdAt |-> 0]

\* the collection outlives the process: at startup it is empty, or holds a
\* document of an earlier run, whose ObjectId the generator does not repeat
InitialStores ==
    { [next |-> 1, docs |-> [id \in ObjectIds |-> Null]],
      [next |-> 2, docs |-> [id \in ObjectIds |->
                                IF id = OidOf(1) THEN SeedDocument ELSE Null]] }

Init ==
    /\ entry \in EntryPoints
    /\ db = "disconnected"
    /\ listening = FALSE
    /\ proc = "running"
    /\ exitCode = NoCode
    /\ \E i \in InitialStores : store = i.docs /\ nextOid = i.next
    /\ clock = 1
    /\ inflight = EmptyBag
    /\ last = Idle
    /\ received = 0
    /\ deletedOk = {}
    /\ putOk = [id \in ObjectIds |-> 0]

Next ==
    \/ StartServer
    \/ ConnectResolves
    \/ ConnectRejects
    \/ EventLoopDrains
    \/ Listen
    \/ GetBlogsReceive
    \/ \E q \in Awaiting : GetBlogsStore(q)
    \/ \E id \in RequestIds : GetByIdReceive(id)
    \/ \E q \in Awaiting : GetByIdStore(q)
    \/ \E q \in PutRequests : PutReceive(q.id, q.data)
    \/ \E q \in Awaiting : PutStore(q)
    \/ \E id \in RequestIds : DeleteReceive(id)
    \/ \E q \in Awaiting : DeleteStore(q)
    \/ \E name \in AuthorQueries : GetByAuthorReceive(name)
    \/ \E q \in Awaiting : GetByAuthorStore(q)
    \/ \E data \in PostPayloads(nextOid) : PostReceive(data)
    \/ \E q \in Awaiting : PostStore(q)
    \/ Send

Spec == Init /\ [][Next]_vars

----------------------------------------------------------------------------
(* Store failures: the awaited store call of a handler rejects (the
   connection is lost, the server errors, the operation times out in the
   driver's buffer) and the handler's catch block answers. *)

\* err.message of a rejected store call
StoreError == "StoreError"

\* the status the catch block of each handler answers with
CatchStatus(op) == IF op = "POST" THEN 400 ELSE 500

\* the store call request q awaits rejects without having taken effect
StoreRejects(q) ==
    /\ proc = "running"
    /\ last.pc = "idle"
    /\ AnswerNow(q, Answer([q EXCEPT !.accessed = TRUE],
                           CatchStatus(q.op), StoreError))
    /\ UNCHANGED <<entry, db, listening, proc, exitCode, store, nextOid, clock,
                   received, deletedOk, putOk>>

NextFailing ==
    \/ Next
    \/ \E q \in Awaiting : StoreRejects(q)

SpecFailing == Init /\ [][NextFailing]_vars

----------------------------------------------------------------------------
(* Properties *)

SchemaFields == {"title", "author", "description"}

\* a handler answers in this step; last' is the request with its answer
AnswersNow == last.pc = "idle" /\ last'.pc = "done"

\* an answer is being sent; last is the request with its answer
Answered == last.pc = "done"

\* a string that is empty once trimmed
IsBlank(v) == \A i \in 1..Len(v) : v[i] = " "

\* the payload lacks a required field, or holds one that is empty once trimmed
LacksRequired(d) == \E f \in SchemaFields : d[f] = Undefined \/ IsBlank(d[f])

\* the payload holds a value the schema refuses
HasInvalidField(d) ==
    \/ d.title # Undefined /\ (IsBlank(d.title) \/ Len(d.title) > TitleMaxLength)
    \/ d.author # Undefined /\ IsBlank(d.author)
    \/ d.description # Undefined
         /\ (IsBlank(d.description) \/ Len(d.description) > DescriptionMaxLength)

\* a payload with at least one key
NonEmpty(d) ==
    d.given /\ (d.ver # NoVer \/ d.extra \/ d.rename
                    \/ \E f \in SchemaFields : d[f] # Undefined)

\* str contains sub, letter case aside
ContainsFolded(str, sub) ==
    \E k \in 0..(Len(str) - Len(sub)) :
        \A i \in 1..Len(sub) : Fold(str[k + i]) = Fold(sub[i])

\* C1: the server listens, and a request handler runs, only once the store
\* connection has succeeded
ListenOnlyWhenConnected ==
    /\ listening => db = "connected"
    /\ (received > 0 \/ inflight # EmptyBag \/ last.pc # "idle")
         => (listening /\ db = "connected")

\* C1 witness: a request has been served by the listening server
ServedAfterConnect ==
    listening /\ db = "connected" /\ Answered /\ last.status = 200

\* C2: once the initial connection has failed the process has exited with a
\* non-zero status, and it never listens
FailedExitsNonZero ==
    db = "failed" => (proc = "exited" /\ exitCode > 0 /\ ~listening)

\* C3: a PUT with a non-empty valid payload on an existing document sets
\* exactly the supplied fields, adds exactly 1 to its revision counter and
\* leaves every other document alone, whatever other keys the payload holds
PutSetsSuppliedAndBumps ==
    [][ (AnswersNow /\ last'.op = "PUT" /\ last'.id \in ObjectIds
            /\ NonEmpty(last'.data) /\ ~HasInvalidField(last'.data)
            /\ ~last'.data.rename
            /\ store[last'.id] # Null)
        => LET id == last'.id
               d == last'.data
           IN /\ last'.status = 200
              /\ store'[id].v = store[id].v + 1
              /\ store'[id].createdAt = store[id].createdAt
              /\ \A f \in SchemaFields :
                     store'[id][f] = IF d[f] # Undefined THEN Trim(d[f]) ELSE store[id][f]
              /\ \A other \in ObjectIds \ {id} : store'[other] = store[other] ]_vars

\* the payload names field f: it sets it, or applies an operator to it
NamesField(d, f) == d[f] # Undefined \/ (f = "title" /\ d.rename)

\* what the payload leaves in field f when it names it
WrittenValue(d, f) ==
    IF f = "title" /\ d.rename THEN Undefined ELSE Trim(d[f])

\* C4: no update is lost: a document's revision counter is the number of PUTs
\* answered 200 for it, and a field of a document changes only to the value
\* that a PUT answered 200 in that step, and naming the field, wrote to it
NoLostUpdate ==
    [][ /\ \A id \in ObjectIds : store'[id] # Null => store'[id].v = putOk'[id]
        /\ \A id \in ObjectIds : \A f \in SchemaFields :
               (store[id] # Null /\ store'[id] # Null /\ store'[id][f] # store[id][f])
               => /\ AnswersNow /\ last'.op = "PUT" /\ last'.status = 200
                  /\ last'.id = id
                  /\ NamesField(last'.data, f)
                  /\ store'[id][f] = WrittenValue(last'.data, f) ]_vars

\* C4 witness: a PUT is answered 200 on a document that another PUT updated
\* while this one was in flight, and both are counted
ConcurrentPutsBothCounted ==
    /\ Answered /\ last.op = "PUT" /\ last.status = 200
    /\ last.seenV >= 0
    /\ store[last.id] # Null
    /\ store[last.id].v = last.seenV + 2
    /\ putOk[last.id] = last.seenV + 2

\* C5: a PUT on a well-formed id with an absent or empty payload is answered
\* 400 without a store operation, and the store stays as it is
EmptyPutRefused ==
    [][ (AnswersNow /\ last'.op = "PUT" /\ last'.id \in ObjectIds
            /\ last'.data \in {NoPayload, EmptyObject})
        => /\ last'.status = 400
           /\ last'.err = "No update data provided"
           /\ ~last'.accessed
           /\ store' = store ]_vars

\* C5 witness: an empty payload for a stored document was answered 400
EmptyPutOnStoredRefused ==
    /\ Answered /\ last.op = "PUT" /\ last.data = EmptyObject
    /\ last.id \in ObjectIds /\ store[last.id] # Null
    /\ last.status = 400

\* C6: a POST that lacks a required field, or holds one that is empty once
\* trimmed, is answered 400 and the stored documents stay as they are
InvalidPostCreatesNothing ==
    [][ (AnswersNow /\ last'.op = "POST" /\ LacksRequired(last'.data))
        => (last'.status = 400 /\ store' = store) ]_vars

\* C6 witness: a POST whose author is blank was answered 400
BlankAuthorPostRefused ==
    /\ Answered /\ last.op = "POST" /\ last.data.author = Blank
    /\ last.data.title = TitleA
    /\ last.status = 400

\* C7: a PUT on an existing document with an invalid field value is answered
\* 400 and the document stays as it is
InvalidPutAnswered400 ==
    [][ (AnswersNow /\ last'.op = "PUT" /\ last'.id \in ObjectIds
            /\ store[last'.id] # Null /\ HasInvalidField(last'.data))
        => (last'.status = 400 /\ store' = store) ]_vars

\* C8: a GET, a DELETE, or a PUT with a valid payload, received after a DELETE
\* was answered 200 for the same id, is answered 404
DeletedIdStays404 ==
    (Answered /\ last.afterDelete
        /\ (last.op \in {"GET", "DELETE"}
            \/ (last.op = "PUT" /\ NonEmpty(last.data) /\ last.data.ver = NoVer
                  /\ ~HasInvalidField(last.data))))
    => last.status = 404

\* C9: GET, DELETE and PUT with a non-empty payload: a malformed id is
\* answered 400 without a store operation, a well-formed id of no stored
\* document is answered 404, the store stays as it is in both cases, and in
\* PUT the malformed id is reported rather than the empty payload
IdErrorsAnswered ==
    [][ (AnswersNow /\ last'.op \in {"GET", "DELETE", "PUT"})
        => /\ (last'.id = MalformedId)
                => /\ last'.status = 400
                   /\ last'.err = "Invalid blog ID format"
                   /\ ~last'.accessed
                   /\ store' = store
           /\ (last'.id \in ObjectIds /\ store[last'.id] = Null
                 /\ (last'.op = "PUT" => NonEmpty(last'.data)))
                => (last'.status = 404 /\ store' = store) ]_vars

\* C10: the author search answers 200 with exactly the documents whose author
\* contains the name, letter case aside, oldest first and counted, and 404
\* when there is none, for every name, the absent one and patterns included
AuthorSearchIsSubstring ==
    (Answered /\ last.op = "AUTHOR")
    => IF last.name = Undefined THEN last.status \in {200, 404}
       ELSE LET expected == {id \in Stored(store) :
                                ContainsFolded(store[id].author, last.name)}
            IN IF expected = {} THEN last.status = 404
               ELSE /\ last.status = 200
                    /\ {last.blogs[i] : i \in 1..Len(last.blogs)} = expected
                    /\ Len(last.blogs) = Cardinality(expected)
                    /\ last.count = Len(last.blogs)
                    /\ \A i, j \in 1..Len(last.blogs) :
                           i < j => store[last.blogs[i]].createdAt
                                      <= store[last.blogs[j]].createdAt

\* C11: in every handler a failure of the store call is answered with 500,
\* which is neither the 404 of a missing document nor the 400 of a refused
\* payload, and the process keeps running
StoreFailureAnswered500 ==
    (Answered /\ last.err = StoreError)
    => /\ last.status = 500
       /\ proc = "running"

\* s is v without its leading and trailing spaces
IsTrimOf(s, v) ==
    /\ s = <<>> \/ (s[1] # " " /\ s[Len(s)] # " ")
    /\ \E i \in 0..Len(v) :
           /\ i + Len(s) <= Len(v)
           /\ SubSeq(v, i + 1, i + Len(s)) = s
           /\ \A k \in (1..i) \cup ((i + Len(s) + 1)..Len(v)) : v[k] = " "

\* the constraints of the schema on one stored document
SatisfiesSchema(doc) ==
    /\ \A f \in SchemaFields : doc[f] # Undefined /\ ~IsBlank(doc[f])
    /\ Len(doc.title) <= TitleMaxLength
    /\ Len(doc.description) <= DescriptionMaxLength

\* C12: every stored document has a title, an author and a description that
\* are not empty once trimmed, a title of at most 100 characters and a
\* description of at most 1000; and the document a POST answered 201 created
\* holds the trimmed values of its payload
RecordsSatisfySchema ==
    /\ \A id \in ObjectIds : store[id] # Null => SatisfiesSchema(store[id])
    /\ (Answered /\ last.op = "POST" /\ last.status = 201)
       => \A f \in SchemaFields : IsTrimOf(store[last.id][f], last.data[f])

============================================================================
